---- MODULE Spec2Model ----
(***************************************************************************)
(* Model of the tool-orchestration core of mcp-chat:                       *)
(*   - McpManager  (lib/mcp-manager): registry of tool-server connections  *)
(*   - ApiService  (lib/api-service): sendMessage agent loop               *)
(* SpecMgr runs the manager's operations as interleaved asynchronous tasks *)
(* (one step per stretch of code between two awaits).                      *)
(***************************************************************************)
EXTENDS Integers, Sequences, FiniteSets, TLC

\* ------------------------------------------------------------------------
\* Bounds of the manager model
\* ------------------------------------------------------------------------
MaxTasks == 2        \* manager calls of SpecMgr (they may overlap)
MaxIds == 3          \* attempts that get as far as spawning a process
MgrIds == 2          \* of which SpecMgr uses
MaxRetry == 1        \* retryCount of the connects of SpecMgr
SeqRetry == 2        \* retryCount of the connects of SpecSeq

Names == {"A", "B"}
Tasks == 1..MaxTasks
Ids == 1..MaxIds
ConfigKinds == {"absent", "invalid", "ok"}
ToolLists == {<<"t">>, <<"t", "u">>}
ListErrors == {"ConnectionClosed", "DiscoveryError"}

VARIABLES
  config,      \* McpManager.config.mcpServers: name -> kind of its entry
  connOrder,   \* key order of the serverConnections Map
  connOf,      \* serverConnections: name -> connection object id (0: no key)
  conns,       \* connection objects (heap): id -> fields
  atts,        \* connect attempts: id -> work of its connectionPromise
  procs,       \* process behind the transport of attempt id
  nextId,      \* next attempt / object id
  tasks,       \* running manager calls
  anthropic,   \* ApiService.anthropic # null
  isInitialized, \* ApiService.isInitialized
  envApiKey,   \* process.env.ANTHROPIC_API_KEY is set
  messages,    \* the message list the caller passed to sendMessage
  sm,          \* the frame (locals) of the sendMessage call
  baseUrl,     \* ApiService.baseUrl
  modelName,   \* ApiService.modelName
  envBaseUrl,  \* process.env.ANTHROPIC_BASE_URL ("" when not set)
  envModelName, \* process.env.MODEL_NAME ("" when not set)
  clientBaseURL, \* the baseURL the client in ApiService.anthropic was made with
  chosen       \* the last arguments of setBaseUrl and setModel ("" if none)

mgrVars == <<config, connOrder, connOf, conns, atts, procs, nextId, tasks>>
setVars == <<baseUrl, modelName, envBaseUrl, envModelName, clientBaseURL,
             chosen>>
apiVars == <<anthropic, isInitialized, envApiKey, messages, sm, setVars>>
vars == <<config, connOrder, connOf, conns, atts, procs, nextId, tasks,
          anthropic, isInitialized, envApiKey, messages, sm,
          baseUrl, modelName, envBaseUrl, envModelName, clientBaseURL, chosen>>

\* ------------------------------------------------------------------------
\* McpManager: data
\* ------------------------------------------------------------------------
\* McpTool: name tagged with the server it came from
McpTool(toolName, serverName) == [name |-> toolName, serverName |-> serverName]

\* toolsResult.tools.map(tool => ({..., serverName }))
TagTools(toolNames, serverName) ==
  [i \in 1..Len(toolNames) |-> McpTool(toolNames[i], serverName)]

\* McpServerConnection object; transport = TRUE while the handle is non-null
NoConnection == [isConnected |-> FALSE, tools |-> <<>>, transport |-> FALSE,
                 clientClosed |-> FALSE]

\* lost: the timeout timer won the race against this attempt; found: the
\* names listTools returned; stamp: rank of its store among all stores;
\* late: its timer has fired after the connectionPromise settled
NoAttempt == [name |-> "-", task |-> 0, phase |-> "unused", err |-> "-",
              lost |-> FALSE, found |-> <<>>, stamp |-> 0, late |-> FALSE]

\* what a caller can observe of the registry
RegEntry(n) ==
  IF connOf[n] = 0
    THEN [present |-> FALSE, connected |-> FALSE, tools |-> <<>>]
    ELSE [present |-> TRUE, connected |-> conns[connOf[n]].isConnected,
          tools |-> conns[connOf[n]].tools]

RegView == [n \in Names |-> RegEntry(n)]

EmptyView == [n \in Names |-> [present |-> FALSE, connected |-> FALSE, tools |-> <<>>]]

IdleTask == [op |-> "none", name |-> "-", pc |-> "idle", retry |-> 0,
             attempt |-> 0, att |-> 0, dconn |-> 0, after |-> "-",
             err |-> "-", result |-> <<>>, snap |-> EmptyView,
             snapOrder |-> <<>>, alone |-> FALSE, log |-> <<>>,
             calls |-> <<>>, last |-> "-", queue |-> <<>>]

\* Map.set(key, value): an existing key keeps its position
MapSetOrder(order, n) ==
  IF \E i \in 1..Len(order) : order[i] = n THEN order ELSE Append(order, n)

getConnectedServers_AllKeys == connOrder

\* getConnectedServers
getConnectedServers ==
  SelectSeq(connOrder, LAMBDA n : conns[connOf[n]].isConnected)

\* ------------------------------------------------------------------------
\* McpManager.setConfig
\* ------------------------------------------------------------------------
SetConfig_DropsConnections(c) ==
  /\ UNCHANGED apiVars
  /\ config' = c
  /\ config' # config
  /\ conns' = [a \in Ids |-> [conns[a] EXCEPT !.isConnected = FALSE]]
  /\ UNCHANGED <<connOrder, connOf, atts, procs, nextId, tasks>>

SetConfig(c) ==
  /\ UNCHANGED apiVars
  /\ config' = c
  /\ config' # config
  /\ UNCHANGED <<connOrder, connOf, conns, atts, procs, nextId, tasks>>

\* ------------------------------------------------------------------------
\* McpManager.connectToServer
\* ------------------------------------------------------------------------
\* catch (error) of the retry loop: rethrow on the last attempt, otherwise
\* go on to the next attempt (which first waits for the back-off timer)
AttemptFailed_KeepsFirstError(tk, e) ==
  LET first == IF tk.log = <<>> THEN e ELSE tk.log[1]
  IN IF tk.attempt = tk.retry
       THEN [tk EXCEPT !.pc = "raised", !.err = first, !.log = Append(@, e)]
       ELSE [tk EXCEPT !.pc = "backoff", !.err = first, !.attempt = @ + 1,
                       !.log = Append(@, e)]

AttemptFailed(tk, e) ==
  IF tk.attempt = tk.retry
    THEN [tk EXCEPT !.pc = "raised", !.err = e, !.log = Append(@, e)]
    ELSE [tk EXCEPT !.pc = "backoff", !.err = e, !.attempt = @ + 1,
                    !.log = Append(@, e)]

\* the validation at the head of each attempt
ConfigValid(n) == config[n] = "ok"

\* One attempt up to its first suspension: validate the configuration,
\* create the transport, start client.connect (not awaited: the process is
\* spawned), call listTools and wait for the race.
StartAttempt(t, tk, pr) ==
  IF ~ConfigValid(tk.name)
    THEN /\ tasks' = [tasks EXCEPT ![t] = AttemptFailed(tk, "ConfigError")]
         /\ procs' = pr
         /\ UNCHANGED <<atts, nextId>>
    ELSE \/ \* new StdioClientTransport throws
            /\ tasks' = [tasks EXCEPT ![t] = AttemptFailed(tk, "TransportError")]
            /\ procs' = pr
            /\ UNCHANGED <<atts, nextId>>
         \/ /\ nextId <= MaxIds
            /\ atts' = [atts EXCEPT ![nextId] =
                          [NoAttempt EXCEPT !.name = tk.name, !.task = t,
                                            !.phase = "listing"]]
            /\ procs' = [pr EXCEPT ![nextId] = "running"]
            /\ nextId' = nextId + 1
            /\ tasks' = [tasks EXCEPT ![t] =
                          [tk EXCEPT !.pc = "racing", !.att = nextId]]

\* a call takes the lowest free task slot
FreeSlot(t) ==
  /\ tasks[t].pc = "idle"
  /\ \A u \in Tasks : u < t => tasks[u].pc # "idle"

\* no other call and no detached attempt is in flight
Quiescent ==
  /\ \A u \in Tasks : tasks[u].pc \in {"idle", "returned", "raised"}
  /\ \A a \in Ids : atts[a].phase \notin {"listing", "closing"}

\* the guard of connectToServer's pre-cleanup and of disconnectServer
NeedsDisconnect(n) == connOf[n] # 0 /\ conns[connOf[n]].isConnected

ConnectBegin(t, n, r) ==
  /\ UNCHANGED apiVars
  /\ FreeSlot(t)
  /\ LET tk == [tasks[t] EXCEPT !.op = "connect", !.name = n, !.retry = r,
                                !.snap = RegView, !.snapOrder = connOrder,
                                !.alone = Quiescent]
     IN IF NeedsDisconnect(n)
          THEN /\ tasks' = [tasks EXCEPT ![t] =
                              [tk EXCEPT !.pc = "mcpClose", !.dconn = connOf[n],
                                         !.after = "attempt"]]
               /\ UNCHANGED <<atts, procs, nextId>>
          ELSE StartAttempt(t, tk, procs)
  /\ UNCHANGED <<config, connOrder, connOf, conns>>

\* the back-off timer of a retry fires: run the next attempt
BackoffDone(t) ==
  /\ UNCHANGED apiVars
  /\ tasks[t].pc = "backoff"
  /\ StartAttempt(t, tasks[t], procs)
  /\ UNCHANGED <<config, connOrder, connOf, conns>>

\* the task that still waits on the race of attempt a (0 if none)
Racer(a) ==
  IF atts[a].task # 0 /\ tasks[atts[a].task].pc = "racing"
     /\ tasks[atts[a].task].att = a
    THEN atts[a].task ELSE 0

\* the number of connections stored in the map so far
Stores == Cardinality({a \in Ids : atts[a].phase = "resolved"})

ListToolsOk_KeepsExisting(a, tl) ==
  /\ UNCHANGED apiVars
  /\ atts[a].phase = "listing"
  /\ LET n == atts[a].name
         serverTools == TagTools(tl, n)
     IN /\ conns' = [conns EXCEPT ![a] =
                       [isConnected |-> TRUE, tools |-> serverTools,
                        transport |-> TRUE, clientClosed |-> FALSE]]
        /\ connOf' = IF NeedsDisconnect(n) THEN connOf
                     ELSE [connOf EXCEPT ![n] = a]
        /\ connOrder' = MapSetOrder(connOrder, n)
        /\ atts' = [atts EXCEPT ![a].phase = "resolved", ![a].found = tl,
                                ![a].stamp = Stores + 1]
        /\ tasks' = IF Racer(a) # 0
                      THEN [tasks EXCEPT ![Racer(a)].pc = "returned",
                                         ![Racer(a)].result = serverTools]
                      ELSE tasks
  /\ UNCHANGED <<config, procs, nextId>>

\* client.listTools() resolves: tag the tools, store the connection in the
\* map and resolve the connectionPromise. The store happens whether or not
\* the timer has already won the race.
ListToolsOk(a, tl) ==
  /\ UNCHANGED apiVars
  /\ atts[a].phase = "listing"
  /\ LET n == atts[a].name
         serverTools == TagTools(tl, n)
     IN /\ conns' = [conns EXCEPT ![a] =
                       [isConnected |-> TRUE, tools |-> serverTools,
                        transport |-> TRUE, clientClosed |-> FALSE]]
        /\ connOf' = [connOf EXCEPT ![n] = a]
        /\ connOrder' = MapSetOrder(connOrder, n)
        /\ atts' = [atts EXCEPT ![a].phase = "resolved", ![a].found = tl,
                                ![a].stamp = Stores + 1]
        /\ tasks' = IF Racer(a) # 0
                      THEN [tasks EXCEPT ![Racer(a)].pc = "returned",
                                         ![Racer(a)].result = serverTools]
                      ELSE tasks
  /\ UNCHANGED <<config, procs, nextId>>

\* client.listTools() rejects: start closing the transport
ListToolsFail(a, e) ==
  /\ UNCHANGED apiVars
  /\ atts[a].phase = "listing"
  /\ atts' = [atts EXCEPT ![a].phase = "closing", ![a].err = e]
  /\ UNCHANGED <<config, connOrder, connOf, conns, procs, nextId, tasks>>

\* transport.close() of the failed attempt settles (ok or not; a failure is
\* only logged), then reject(listToolsError)
CloseAfterListFail(a, ok) ==
  /\ UNCHANGED apiVars
  /\ atts[a].phase = "closing"
  /\ atts' = [atts EXCEPT ![a].phase = "rejected"]
  /\ procs' = [procs EXCEPT ![a] = IF ok THEN "closed" ELSE @]
  /\ tasks' = IF Racer(a) # 0
                THEN [tasks EXCEPT ![Racer(a)] = AttemptFailed(@, atts[a].err)]
                ELSE tasks
  /\ UNCHANGED <<config, connOrder, connOf, conns, nextId>>

\* the timeout timer fires before the connectionPromise settled
TimerFires(t) ==
  /\ UNCHANGED apiVars
  /\ tasks[t].pc = "racing"
  /\ tasks' = [tasks EXCEPT ![t] = AttemptFailed(@, "Timeout")]
  /\ atts' = [atts EXCEPT ![tasks[t].att].lost = TRUE]
  /\ UNCHANGED <<config, connOrder, connOf, conns, procs, nextId>>

TimerFiresLate_Rejects(a) ==
  /\ UNCHANGED apiVars
  /\ atts[a].phase \in {"resolved", "rejected"}
  /\ ~atts[a].lost /\ ~atts[a].late
  /\ atts' = [atts EXCEPT ![a].late = TRUE]
  /\ tasks' = [tasks EXCEPT ![atts[a].task] = AttemptFailed(@, "Timeout")]
  /\ UNCHANGED <<config, connOrder, connOf, conns, procs, nextId>>

\* the timer is never cleared: it also fires after the connectionPromise has
\* settled, and then rejects a promise whose race is already decided
TimerFiresLate(a) ==
  /\ UNCHANGED apiVars
  /\ atts[a].phase \in {"resolved", "rejected"}
  /\ ~atts[a].lost /\ ~atts[a].late
  /\ atts' = [atts EXCEPT ![a].late = TRUE]
  /\ UNCHANGED <<config, connOrder, connOf, conns, procs, nextId, tasks>>

\* ------------------------------------------------------------------------
\* McpManager.disconnectServer
\* ------------------------------------------------------------------------
DisconnectBegin_AlwaysCloses(t, n) ==
  /\ UNCHANGED apiVars
  /\ FreeSlot(t)
  /\ LET tk == [tasks[t] EXCEPT !.op = "disconnect", !.name = n,
                                !.snap = RegView, !.snapOrder = connOrder,
                                !.alone = Quiescent]
     IN tasks' = [tasks EXCEPT ![t] =
          IF connOf[n] # 0
            THEN [tk EXCEPT !.pc = "mcpClose", !.dconn = connOf[n],
                            !.after = "done"]
            ELSE [tk EXCEPT !.pc = "returned"]]
  /\ UNCHANGED <<config, connOrder, connOf, conns, atts, procs, nextId>>

DisconnectBegin(t, n) ==
  /\ UNCHANGED apiVars
  /\ FreeSlot(t)
  /\ LET tk == [tasks[t] EXCEPT !.op = "disconnect", !.name = n,
                                !.snap = RegView, !.snapOrder = connOrder,
                                !.alone = Quiescent]
     IN tasks' = [tasks EXCEPT ![t] =
          IF NeedsDisconnect(n)
            THEN [tk EXCEPT !.pc = "mcpClose", !.dconn = connOf[n],
                            !.after = "done"]
            ELSE [tk EXCEPT !.pc = "returned"]]
  /\ UNCHANGED <<config, connOrder, connOf, conns, atts, procs, nextId>>

\* connection.mcp.close() settles; Client.close() closes its transport, so a
\* successful close ends the process. Then the finally block: close the
\* transport if the object still holds one, else finish at once.
\* pr: the process table after the close step that just settled.
\* disconnectAll: for (const name of serverNames) await disconnectServer(name)
\* from the head of the names left (queue) up to the next close step;
\* disconnectServer returns at once for a name whose entry is not connected
RECURSIVE DisconnectNext(_)
DisconnectNext(tk) ==
  IF tk.queue = <<>> THEN [tk EXCEPT !.pc = "returned"]
  ELSE LET n == Head(tk.queue)
       IN IF NeedsDisconnect(n)
            THEN [tk EXCEPT !.pc = "mcpClose", !.name = n,
                            !.dconn = connOf[n], !.after = "done",
                            !.queue = Tail(@),
                            !.calls = Append(@, connOf[n])]
            ELSE DisconnectNext([tk EXCEPT !.queue = Tail(@)])

\* disconnectAll up to its first close step; serverNames is the snapshot of
\* the map's keys
DisconnectAllBegin(t) ==
  /\ UNCHANGED apiVars
  /\ FreeSlot(t)
  /\ tasks' = [tasks EXCEPT ![t] =
       DisconnectNext([@ EXCEPT !.op = "disconnectAll",
                                !.snap = RegView, !.snapOrder = connOrder,
                                !.alone = Quiescent, !.queue = connOrder])]
  /\ UNCHANGED <<config, connOrder, connOf, conns, atts, procs, nextId>>

DisconnectFinish_KeepsTools(t, pr) ==
  LET c == tasks[t].dconn
      n == tasks[t].name
  IN /\ conns' = [conns EXCEPT ![c] =
                    [@ EXCEPT !.isConnected = FALSE, !.transport = FALSE]]
     /\ connOf' = [connOf EXCEPT ![n] = c]
     /\ connOrder' = MapSetOrder(connOrder, n)
     /\ IF tasks[t].after = "attempt"
          THEN StartAttempt(t, [tasks[t] EXCEPT !.dconn = 0], pr)
          ELSE /\ tasks' = [tasks EXCEPT ![t].pc = "returned"]
               /\ procs' = pr
               /\ UNCHANGED <<atts, nextId>>

DisconnectFinish(t, pr) ==
  LET c == tasks[t].dconn
      n == tasks[t].name
  IN /\ conns' = [conns EXCEPT ![c] =
                    [@ EXCEPT !.isConnected = FALSE, !.tools = <<>>,
                              !.transport = FALSE]]
     /\ connOf' = [connOf EXCEPT ![n] = c]
     /\ connOrder' = MapSetOrder(connOrder, n)
     /\ IF tasks[t].after = "attempt"
          THEN StartAttempt(t, [tasks[t] EXCEPT !.dconn = 0], pr)
          ELSE /\ tasks' = [tasks EXCEPT ![t] =
                              IF @.op = "disconnectAll"
                                THEN DisconnectNext(@)
                                ELSE [@ EXCEPT !.pc = "returned"]]
               /\ procs' = pr
               /\ UNCHANGED <<atts, nextId>>

McpCloseSettles_StopsOnFailure(t, ok) ==
  /\ UNCHANGED apiVars
  /\ tasks[t].pc = "mcpClose"
  /\ LET c == tasks[t].dconn
         pr == IF ok THEN [procs EXCEPT ![c] = "closed"] ELSE procs
     IN IF conns[c].transport /\ ok
          THEN /\ tasks' = [tasks EXCEPT ![t].pc = "transportClose"]
               /\ procs' = pr
               /\ conns' = [conns EXCEPT ![c].clientClosed = @ \/ ok]
               /\ UNCHANGED <<connOrder, connOf, atts, nextId>>
          ELSE DisconnectFinish(t, pr)
  /\ UNCHANGED config

McpCloseSettles(t, ok) ==
  /\ UNCHANGED apiVars
  /\ tasks[t].pc = "mcpClose"
  /\ LET c == tasks[t].dconn
         pr == IF ok THEN [procs EXCEPT ![c] = "closed"] ELSE procs
     IN IF conns[c].transport
          THEN /\ tasks' = [tasks EXCEPT ![t].pc = "transportClose"]
               /\ procs' = pr
               /\ conns' = [conns EXCEPT ![c].clientClosed = @ \/ ok]
               /\ UNCHANGED <<connOrder, connOf, atts, nextId>>
          ELSE DisconnectFinish(t, pr)
  /\ UNCHANGED config

\* connection.transport.close() settles (a failure is only logged)
TransportCloseSettles(t, ok) ==
  /\ UNCHANGED apiVars
  /\ tasks[t].pc = "transportClose"
  /\ DisconnectFinish(t, IF ok THEN [procs EXCEPT ![tasks[t].dconn] = "closed"]
                               ELSE procs)
  /\ UNCHANGED config

\* ------------------------------------------------------------------------
\* McpManager.getAllTools / callTool
\* ------------------------------------------------------------------------
RECURSIVE ConcatTools(_)
ConcatTools(order) ==
  IF order = <<>> THEN <<>>
  ELSE (IF conns[connOf[Head(order)]].isConnected
          THEN conns[connOf[Head(order)]].tools ELSE <<>>)
       \o ConcatTools(Tail(order))

getAllTools == ConcatTools(connOrder)

HasTool(c, toolName) ==
  \E i \in 1..Len(conns[c].tools) : conns[c].tools[i].name = toolName

\* the first connection, in Map order, that is connected and lists the tool
\* (0: none, callTool throws)
RECURSIVE FirstServing(_, _)
FirstServing(order, toolName) ==
  IF order = <<>> THEN 0
  ELSE IF conns[connOf[Head(order)]].isConnected
          /\ HasTool(connOf[Head(order)], toolName)
         THEN connOf[Head(order)]
         ELSE FirstServing(Tail(order), toolName)

TargetServer(toolName) == FirstServing(connOrder, toolName)

\* callTool up to its await: look the target up and throw if there is none,
\* else hand the call to the target's client (calls: the connections the
\* call was handed to)
CallToolBegin(t, toolName) ==
  /\ UNCHANGED apiVars
  /\ FreeSlot(t)
  /\ LET tk == [tasks[t] EXCEPT !.op = "callTool", !.name = toolName,
                                !.snap = RegView, !.snapOrder = connOrder,
                                !.alone = Quiescent]
         targetServer == TargetServer(toolName)
     IN tasks' = [tasks EXCEPT ![t] =
          IF targetServer = 0
            THEN [tk EXCEPT !.pc = "raised", !.err = "ToolNotFound"]
            ELSE [tk EXCEPT !.pc = "calling", !.dconn = targetServer,
                            !.calls = <<targetServer>>]]
  /\ UNCHANGED <<config, connOrder, connOf, conns, atts, procs, nextId>>

CallToolSettles_Retry(t, outcome) ==
  /\ UNCHANGED apiVars
  /\ tasks[t].pc = "calling"
  /\ tasks' = [tasks EXCEPT ![t] =
       IF outcome = "ToolExecutionError"
         THEN IF Len(@.calls) < 2
                THEN [@ EXCEPT !.calls = Append(@, tasks[t].dconn)]
                ELSE [@ EXCEPT !.pc = "raised", !.err = outcome]
         ELSE [@ EXCEPT !.pc = "returned", !.result = <<outcome>>]]
  /\ UNCHANGED <<config, connOrder, connOf, conns, atts, procs, nextId>>

\* targetServer.mcp.callTool settles: return the result, or rethrow
CallToolSettles(t, outcome) ==
  /\ UNCHANGED apiVars
  /\ tasks[t].pc = "calling"
  /\ tasks' = [tasks EXCEPT ![t] =
       IF outcome = "ToolExecutionError"
         THEN [@ EXCEPT !.pc = "raised", !.err = outcome]
         ELSE [@ EXCEPT !.pc = "returned", !.result = <<outcome>>]]
  /\ UNCHANGED <<config, connOrder, connOf, conns, atts, procs, nextId>>

\* the caller of a finished call has its outcome; the slot is free again
\* (last: the name the finished call disconnected with its close steps)
TaskDone(t) ==
  /\ UNCHANGED apiVars
  /\ tasks[t].pc \in {"returned", "raised"}
  /\ tasks' = [tasks EXCEPT ![t] =
       [IdleTask EXCEPT !.last =
          IF tasks[t].op = "disconnect" /\ tasks[t].dconn # 0
            THEN tasks[t].name ELSE "-"]]
  /\ UNCHANGED <<config, connOrder, connOf, conns, atts, procs, nextId>>

\* ------------------------------------------------------------------------
\* ApiService: data
\* ------------------------------------------------------------------------
DefaultModel == "claude-3-7-sonnet-latest"
DefaultBaseUrl == "https://api.anthropic.com"
NoClient == "-"

\* the endpoints and the models the settings are given
Urls == {"u1", "u2"}
Models == {"m1", "m2"}
\* the model name an environment file sets
EnvModel == "m0"

maxIterations == 20

\* bounds of the language model's behaviour
MaxBlocks == 2          \* content blocks per model response
MaxChoiceRounds == 2    \* rounds in which the model answers freely
MaxArg == 1             \* tool inputs the model picks from in those rounds

ToolNames == {"t", "u"}
Results == {"r"}

\* MessageContent
TextBlock(s) ==
  [type |-> "text", text |-> s, name |-> "-", args |-> 0, result |-> "-"]
ToolUseBlock(n, a) ==
  [type |-> "tool_use", text |-> "", name |-> n, args |-> a, result |-> "-"]
ToolResultBlock(n, a, r) ==
  [type |-> "tool_result", text |-> "", name |-> n, args |-> a, result |-> r]

\* result: { error: ... }, the error-flavoured tool result
ErrorResult == "error"

Message(role, content) == [role |-> role, content |-> content]

\* JSON.stringify over the values the loop serialises: a tool input (the
\* object {"a": i}) and a string. A string is quoted and its quotes escaped.
RECURSIVE EscapeChars(_)
EscapeChars(cs) ==
  IF cs = <<>> THEN <<>>
  ELSE (IF Head(cs) \in {"\"", "\\"} THEN <<"\\", Head(cs)>> ELSE <<Head(cs)>>)
       \o EscapeChars(Tail(cs))

JsObject(a) == [kind |-> "object", chars |-> <<"{", "\"", "a", "\"", ":", ToString(a), "}">>]
JsString(cs) == [kind |-> "string", chars |-> cs]

JSONstringify(v) ==
  IF v.kind = "string" THEN <<"\"">> \o EscapeChars(v.chars) \o <<"\"">>
  ELSE v.chars

\* `${content.name}:${JSON.stringify(content.input)}`
toolCallKey(n, a) == <<n, ":">> \o JSONstringify(JsObject(a))

\* calledTools.push({name, input: JSON.stringify(content.input)})
CalledTool(n, a) == [name |-> n, input |-> JSONstringify(JsObject(a))]

\* calledTools.some(tool => `${tool.name}:${JSON.stringify(tool.input)}` === toolCallKey)
\* tool.input is the string stored by CalledTool
isRepeatedCall(calledTools, n, a) ==
  \E k \in 1..Len(calledTools) :
    (<<calledTools[k].name, ":">> \o JSONstringify(JsString(calledTools[k].input)))
      = toolCallKey(n, a)

\* the explanation pushed when a repeated call is detected
RepeatText(n) == "repeated call of tool " \o n

\* entries of the model-facing history (MessageParam)
StringEntry(role, s) == [role |-> role, kind |-> "string", body |-> <<s>>]
BlocksEntry(role, ts) == [role |-> role, kind |-> "blocks", body |-> ts]
NeedToolEntry(n) == [role |-> "assistant", kind |-> "needTool", body |-> <<n>>]
ToolResultEntry(n, r) == [role |-> "user", kind |-> "toolResult", body |-> <<n, r>>]
ToolFailedEntry(n, e) == [role |-> "user", kind |-> "toolFailed", body |-> <<n, e>>]
SummaryPrompt(ts) == [role |-> "user", kind |-> "summaryPrompt", body |-> ts]

TextsOf(content) ==
  LET ts == SelectSeq(content, LAMBDA c : c.type = "text")
  IN [i \in 1..Len(ts) |-> ts[i].text]

\* messages.map(msg => ...): a message with no block or one text block becomes
\* a bare string, any other message its text blocks only
ConvertMessage(msg) ==
  IF Len(msg.content) = 0
     \/ (Len(msg.content) = 1 /\ msg.content[1].type = "text")
    THEN StringEntry(msg.role,
                     IF Len(msg.content) = 0 THEN "" ELSE msg.content[1].text)
    ELSE BlocksEntry(msg.role, TextsOf(msg.content))

ConvertMessages(msgs) == [i \in 1..Len(msgs) |-> ConvertMessage(msgs[i])]

\* mcpManager.getTools().map(tool => ({name, description, input_schema}))
ToolCatalog == [i \in 1..Len(getAllTools) |-> getAllTools[i].name]

\* the histories a caller passes
InputHistories ==
  { <<Message("user", <<TextBlock("q")>>)>>,
    <<Message("user", <<>>),
      Message("assistant", <<ToolUseBlock("t", 1), ToolResultBlock("t", 1, "r"),
                             TextBlock("x")>>),
      Message("user", <<TextBlock("q")>>)>> }

\* The content a model response may hold. The text of a block is opaque to
\* sendMessage (only its emptiness is tested), so the model's text blocks are
\* told apart by where they stand: round and position in the response.
TextAt(round, i) == "s" \o ToString(round) \o "." \o ToString(i)

BlockShapes ==
  {TextBlock("")} \cup {ToolUseBlock(n, a) : n \in ToolNames, a \in 1..MaxArg}

SeqsUpTo(S, k) == UNION {[1..m -> S] : m \in 0..k}

WithTexts(shape, round) ==
  [i \in 1..Len(shape) |->
     IF shape[i].type = "text" THEN TextBlock(TextAt(round, i)) ELSE shape[i]]

FreeResponses(round) ==
  {WithTexts(shape, round) : shape \in SeqsUpTo(BlockShapes, MaxBlocks)}

\* the model answers freely in the first rounds; afterwards it either stops
\* with a text or asks for one tool call it has not asked for before
Responses(round) ==
  IF round <= MaxChoiceRounds
    THEN FreeResponses(round)
    ELSE { <<TextBlock(TextAt(round, 1))>>,
           <<ToolUseBlock("t", MaxArg + round)>> }

\* the surroundings of a call (failing tools and loop requests, the API key,
\* the connection of the tool server) act only up to the end of the model's
\* free rounds
EnvActive(f) == f.iterations <= MaxChoiceRounds

\* the frame of a sendMessage call, and the record of what happened to it:
\* requests: the model requests issued; invoked: the (name, args) pairs handed
\* to mcpManager.callTool; answers: the model's responses to loop requests;
\* outcomes: what each callTool gave back; modelErrors: failed model requests
\* and atFailure: the requests and invocations made when the last one failed;
\* given: the list the caller passed; toolsAtStart: the tools connected then;
\* fallbackAnswer, summaryAnswer: the model's responses to fallback and to
\* summary requests; sentTo: the endpoint and the model of each request
IdleFrame ==
  [pc |-> "idle", anthropicMessages |-> <<>>, tools |-> <<>>,
   messageContent |-> <<>>, conversationHistory |-> <<>>,
   shouldContinue |-> TRUE, hasAnyToolCalls |-> FALSE, iterations |-> 0,
   calledTools |-> <<>>, response |-> <<>>, idx |-> 0,
   hasToolCallsThisRound |-> FALSE, tempContent |-> <<>>,
   modelTextResponse |-> "", target |-> 0,
   returned |-> <<>>, error |-> "-",
   requests |-> <<>>, lastRequest |-> [messages |-> <<>>, tools |-> <<>>],
   invoked |-> <<>>, answers |-> <<>>, outcomes |-> <<>>,
   modelErrors |-> 0, atFailure |-> <<0, 0>>,
   given |-> <<>>, toolsAtStart |-> <<>>, fallbackAnswer |-> <<>>,
   summaryAnswer |-> <<>>, sentTo |-> <<>>]

\* ------------------------------------------------------------------------
\* ApiService.sendMessage
\* ------------------------------------------------------------------------
\* e: what the running call sees of the service and of its caller,
\*    [client |-> this.anthropic # null, messages |-> the messages argument,
\*     url |-> the client's baseURL, model |-> this.modelName]

IssueRequest_AlwaysTools(f, e, kind, msgs, toolList) ==
  IF ~e.client
    THEN [f EXCEPT !.pc = "raised", !.error = "TypeError"]
    ELSE [f EXCEPT !.pc = kind,
                   !.requests = Append(@, [kind |-> kind, withTools |-> TRUE]),
                   !.sentTo = Append(@, [url |-> e.url, model |-> e.model]),
                   !.lastRequest = [messages |-> msgs, tools |-> toolList]]

\* this.anthropic.messages.create(...): a null client throws before any
\* request leaves; otherwise the request is in flight and the call waits
IssueRequest(f, e, kind, msgs, toolList) ==
  IF ~e.client
    THEN [f EXCEPT !.pc = "raised", !.error = "TypeError"]
    ELSE [f EXCEPT !.pc = kind,
                   !.requests = Append(@, [kind |-> kind,
                                           withTools |-> Len(toolList) > 0]),
                   !.sentTo = Append(@, [url |-> e.url, model |-> e.model]),
                   !.lastRequest = [messages |-> msgs, tools |-> toolList]]

ReturnMessage_Pending(f) == [f EXCEPT !.pc = "pending"]

\* return { role: 'assistant', content: messageContent }
ReturnMessage(f) ==
  [f EXCEPT !.pc = "returned",
            !.returned = <<Message("assistant", f.messageContent)>>]

NeedFallback_WheneverNoToolCalls(f) == ~f.hasAnyToolCalls

\* if (!hasAnyToolCalls && messageContent.length === 0)
NeedFallback(f) == ~f.hasAnyToolCalls /\ Len(f.messageContent) = 0

AfterSummary(f, e) ==
  IF NeedFallback(f)
    THEN IssueRequest(f, e, "fallback", f.anthropicMessages, <<>>)
    ELSE ReturnMessage(f)

CapReached_WheneverAtCap(f) == f.iterations >= maxIterations

\* if (iterations >= maxIterations && shouldContinue)
CapReached(f) == f.iterations >= maxIterations /\ f.shouldContinue

AfterLoop(f, e) ==
  IF CapReached(f)
    THEN IssueRequest(f, e, "summary",
           <<SummaryPrompt(TextsOf(e.messages[Len(e.messages)].content))>>,
           <<>>)
    ELSE AfterSummary(f, e)

LoopGuard_OffByOne(f) == f.shouldContinue /\ f.iterations <= maxIterations

\* while (shouldContinue && iterations < maxIterations)
LoopGuard(f) == f.shouldContinue /\ f.iterations < maxIterations

LoopHead(f, e) ==
  IF LoopGuard(f)
    THEN IssueRequest([f EXCEPT !.iterations = @ + 1], e, "loop",
                      f.conversationHistory, f.tools)
    ELSE AfterLoop(f, e)

\* tempContent.filter(c => c.type === 'text')
FlushTexts(tempContent) == SelectSeq(tempContent, LAMBDA c : c.type = "text")

\* the end of a round, after the for loop over response.content
EndRound(f, e) ==
  LoopHead(
    IF ~f.hasToolCallsThisRound
      THEN [f EXCEPT
             !.messageContent = @ \o FlushTexts(f.tempContent),
             !.conversationHistory =
                IF f.modelTextResponse # ""
                  THEN Append(@, StringEntry("assistant", f.modelTextResponse))
                  ELSE @,
             !.shouldContinue = FALSE]
      ELSE f,
    e)

\* the repeat branch: explain and leave the for loop
RepeatBranch(f, c) ==
  [f EXCEPT !.modelTextResponse = RepeatText(c.name),
            !.tempContent = Append(@, TextBlock(RepeatText(c.name))),
            !.shouldContinue = FALSE]

BeginToolCall_NoToolUse(f, c) ==
  [f EXCEPT !.calledTools = Append(@, CalledTool(c.name, c.args)),
            !.hasToolCallsThisRound = TRUE,
            !.hasAnyToolCalls = TRUE,
            !.tempContent = Append(@, ToolUseBlock(c.name, c.args)),
            !.invoked = Append(@, <<c.name, c.args>>),
            !.target = TargetServer(c.name),
            !.pc = "executing"]

\* a tool_use block that is not a repeat: record it, push the toolUse block
\* and call mcpManager.callTool, whose lookup runs at once
BeginToolCall(f, c) ==
  [f EXCEPT !.calledTools = Append(@, CalledTool(c.name, c.args)),
            !.hasToolCallsThisRound = TRUE,
            !.hasAnyToolCalls = TRUE,
            !.tempContent = Append(@, ToolUseBlock(c.name, c.args)),
            !.messageContent = Append(@, ToolUseBlock(c.name, c.args)),
            !.invoked = Append(@, <<c.name, c.args>>),
            !.target = TargetServer(c.name),
            !.pc = "executing"]

\* for (const content of response.content), from block f.idx up to the next
\* suspension
RECURSIVE Interpret(_, _)
Interpret(f, e) ==
  IF f.idx > Len(f.response) THEN EndRound(f, e)
  ELSE LET c == f.response[f.idx]
       IN IF c.type = "text"
            THEN Interpret([f EXCEPT !.tempContent = Append(@, TextBlock(c.text)),
                                     !.modelTextResponse = c.text,
                                     !.idx = @ + 1], e)
            ELSE IF isRepeatedCall(f.calledTools, c.name, c.args)
                   THEN EndRound(RepeatBranch(f, c), e)
                   ELSE BeginToolCall(f, c)

AfterToolSuccess_NoOutput(f, r) ==
  LET c == f.response[f.idx]
  IN [f EXCEPT !.tempContent = Append(@, ToolResultBlock(c.name, c.args, r)),
               !.conversationHistory = Append(@, ToolResultEntry(c.name, r)),
               !.idx = @ + 1, !.pc = "interpreting"]

\* the try branch after callTool returned result r
AfterToolSuccess(f, r) ==
  LET c == f.response[f.idx]
      withAssistant ==
        IF f.modelTextResponse # "" \/ f.iterations = 1
          THEN Append(f.conversationHistory,
                      IF f.modelTextResponse # ""
                        THEN StringEntry("assistant", f.modelTextResponse)
                        ELSE NeedToolEntry(c.name))
          ELSE f.conversationHistory
  IN [f EXCEPT !.tempContent = Append(@, ToolResultBlock(c.name, c.args, r)),
               !.messageContent = Append(@, ToolResultBlock(c.name, c.args, r)),
               !.conversationHistory =
                  Append(withAssistant, ToolResultEntry(c.name, r)),
               !.idx = @ + 1, !.pc = "interpreting"]

AfterToolFailure_NoHistory(f, err) ==
  LET c == f.response[f.idx]
  IN [f EXCEPT !.tempContent = Append(@, ToolResultBlock(c.name, c.args, ErrorResult)),
               !.messageContent = Append(@, ToolResultBlock(c.name, c.args, ErrorResult)),
               !.idx = @ + 1, !.pc = "interpreting"]

\* the catch branch after callTool threw err
AfterToolFailure(f, err) ==
  LET c == f.response[f.idx]
      withAssistant ==
        IF f.modelTextResponse # ""
          THEN Append(f.conversationHistory,
                      StringEntry("assistant", f.modelTextResponse))
          ELSE f.conversationHistory
  IN [f EXCEPT !.tempContent = Append(@, ToolResultBlock(c.name, c.args, ErrorResult)),
               !.messageContent = Append(@, ToolResultBlock(c.name, c.args, ErrorResult)),
               !.conversationHistory =
                  Append(withAssistant, ToolFailedEntry(c.name, err)),
               !.idx = @ + 1, !.pc = "interpreting"]

AfterRequestFailure_Retry(f) ==
  [f EXCEPT !.requests = Append(@, f.requests[Len(f.requests)])]

AfterRequestFailure_PartialReturn(f) ==
  [f EXCEPT !.pc = "raised", !.error = "ModelCallError",
            !.returned = <<Message("assistant", f.messageContent)>>]

\* a model request that fails is not caught anywhere in sendMessage
AfterRequestFailure(f) == [f EXCEPT !.pc = "raised", !.error = "ModelCallError"]

\* initAnthropicClient, as far as the client is concerned
ClientAfterInit == IF envApiKey THEN TRUE ELSE anthropic

CallEnv == [client |-> anthropic, messages |-> messages,
            url |-> clientBaseURL, model |-> modelName]

\* a || b on strings
OrElse(a, b) == IF a # "" THEN a ELSE b

\* sendMessage up to its first suspension
SendStart(msgs) ==
  /\ sm.pc = "idle"
  /\ messages' = msgs
  /\ LET client == IF isInitialized THEN anthropic ELSE ClientAfterInit
         url == IF ~isInitialized /\ envApiKey
                  THEN OrElse(envBaseUrl, baseUrl) ELSE clientBaseURL
         model == IF ~isInitialized THEN OrElse(envModelName, modelName)
                  ELSE modelName
         f0 == [IdleFrame EXCEPT
                  !.given = msgs, !.toolsAtStart = getAllTools,
                  !.anthropicMessages = ConvertMessages(msgs),
                  !.tools = ToolCatalog,
                  !.conversationHistory = ConvertMessages(msgs)]
     IN /\ anthropic' = client
        /\ isInitialized' = (isInitialized \/ envApiKey)
        /\ sm' = IF ~client
                   THEN [IdleFrame EXCEPT !.pc = "raised", !.error = "ApiKeyNotSet",
                                          !.given = msgs,
                                          !.toolsAtStart = getAllTools]
                   ELSE LoopHead(f0, [client |-> client, messages |-> msgs,
                                      url |-> url, model |-> model])
        /\ clientBaseURL' = url
        /\ modelName' = model
        /\ baseUrl' = IF ~isInitialized THEN OrElse(envBaseUrl, baseUrl)
                      ELSE baseUrl
  /\ UNCHANGED <<envApiKey, envBaseUrl, envModelName, chosen, mgrVars>>

\* the model answers a loop request
ModelResponds(resp) ==
  /\ sm.pc = "loop"
  /\ sm' = Interpret([sm EXCEPT !.answers = Append(@, resp),
                                !.response = resp, !.idx = 1,
                                !.hasToolCallsThisRound = FALSE,
                                !.tempContent = <<>>,
                                !.modelTextResponse = "",
                                !.pc = "interpreting"], CallEnv)
  /\ UNCHANGED <<anthropic, isInitialized, envApiKey, messages, mgrVars, setVars>>

\* a model request (loop, summary or fallback) fails
RequestFails ==
  /\ sm.pc \in {"loop", "summary", "fallback"}
  /\ sm.pc = "loop" => EnvActive(sm)
  /\ sm' = AfterRequestFailure(
             [sm EXCEPT !.modelErrors = @ + 1,
                        !.atFailure = <<Len(sm.requests), Len(sm.invoked)>>])
  /\ UNCHANGED <<anthropic, isInitialized, envApiKey, messages, mgrVars, setVars>>

\* the connection found by callTool answers the call
ToolSucceeds(r) ==
  /\ sm.pc = "executing"
  /\ sm.target # 0
  /\ sm' = Interpret(AfterToolSuccess([sm EXCEPT !.outcomes = Append(@, r)], r),
                     CallEnv)
  /\ UNCHANGED <<anthropic, isInitialized, envApiKey, messages, mgrVars, setVars>>

\* callTool throws: no connection found, or the downstream call raised
ToolFails ==
  /\ sm.pc = "executing"
  /\ sm.target = 0 \/ EnvActive(sm)
  /\ sm' = Interpret(AfterToolFailure(
              [sm EXCEPT !.outcomes = Append(@, ErrorResult)],
              IF sm.target = 0 THEN "ToolNotFound" ELSE "ToolExecutionError"),
            CallEnv)
  /\ UNCHANGED <<anthropic, isInitialized, envApiKey, messages, mgrVars, setVars>>

\* finalResponse.content.find(c => c.type === 'text'), pushed if there is one
FirstText(resp) ==
  LET ts == FlushTexts(resp) IN IF ts = <<>> THEN <<>> ELSE <<ts[1]>>

SummaryResponds(resp) ==
  /\ sm.pc = "summary"
  /\ sm' = AfterSummary([sm EXCEPT !.messageContent = @ \o FirstText(resp),
                                   !.summaryAnswer = Append(@, resp)],
                        CallEnv)
  /\ UNCHANGED <<anthropic, isInitialized, envApiKey, messages, mgrVars, setVars>>

FallbackResponds(resp) ==
  /\ sm.pc = "fallback"
  /\ sm' = ReturnMessage([sm EXCEPT !.messageContent = @ \o FlushTexts(resp),
                                    !.fallbackAnswer = Append(@, resp)])
  /\ UNCHANGED <<anthropic, isInitialized, envApiKey, messages, mgrVars, setVars>>

\* the caller has taken the result (or the error); the service is free for
\* the next call
CallOver ==
  /\ sm.pc \in {"returned", "raised"}
  /\ sm' = IdleFrame
  /\ messages' = <<>>
  /\ UNCHANGED <<anthropic, isInitialized, envApiKey, mgrVars, setVars>>

\* ------------------------------------------------------------------------
\* ApiService.setApiKey
\* ------------------------------------------------------------------------
SetApiKey(nonEmpty) ==
  /\ EnvActive(sm)
  /\ IF nonEmpty
       THEN /\ anthropic' = TRUE /\ isInitialized' = TRUE /\ envApiKey' = TRUE
            /\ clientBaseURL' = OrElse(envBaseUrl, baseUrl)
       ELSE /\ anthropic' = FALSE /\ isInitialized' = FALSE
            /\ clientBaseURL' = NoClient
            /\ UNCHANGED envApiKey
  /\ <<anthropic, isInitialized, envApiKey, clientBaseURL>>'
       # <<anthropic, isInitialized, envApiKey, clientBaseURL>>
  /\ UNCHANGED <<messages, sm, mgrVars>>
  /\ UNCHANGED <<baseUrl, modelName, envBaseUrl, envModelName, chosen>>

\* ------------------------------------------------------------------------
\* ApiService.setBaseUrl / setModel (an empty argument changes nothing)
\* ------------------------------------------------------------------------
SetBaseUrl(u) ==
  /\ baseUrl' = u
  /\ IF envApiKey /\ ~anthropic
       THEN anthropic' = TRUE /\ isInitialized' = TRUE /\ clientBaseURL' = u
       ELSE UNCHANGED <<anthropic, isInitialized, clientBaseURL>>
  /\ envBaseUrl' = u
  /\ chosen' = [chosen EXCEPT !.baseUrl = u]
  /\ UNCHANGED <<envApiKey, messages, sm, modelName, envModelName, mgrVars>>

SetModel(m) ==
  /\ modelName' = m
  /\ chosen' = [chosen EXCEPT !.model = m]
  /\ UNCHANGED <<anthropic, isInitialized, envApiKey, messages, sm, mgrVars>>
  /\ UNCHANGED <<baseUrl, envBaseUrl, envModelName, clientBaseURL>>

\* ------------------------------------------------------------------------
\* The registry as sendMessage meets it: the connect route (setConfig, then a
\* connectToServer of server A that succeeds) or a disconnectServer of it,
\* with nothing interleaved
\* ------------------------------------------------------------------------
SendServer == "A"
SendToolList == <<"t">>

ServerConnected ==
  /\ EnvActive(sm)
  /\ ~NeedsDisconnect(SendServer)
  /\ config' = [n \in Names |-> IF n = SendServer THEN "ok" ELSE "absent"]
  /\ conns' = [conns EXCEPT ![1] =
                 [isConnected |-> TRUE, tools |-> TagTools(SendToolList, SendServer),
                  transport |-> TRUE, clientClosed |-> FALSE]]
  /\ procs' = [procs EXCEPT ![1] = "running"]
  /\ connOf' = [connOf EXCEPT ![SendServer] = 1]
  /\ connOrder' = MapSetOrder(connOrder, SendServer)
  /\ UNCHANGED <<atts, nextId, tasks, apiVars>>

ServerDisconnected ==
  /\ EnvActive(sm)
  /\ NeedsDisconnect(SendServer)
  /\ conns' = [conns EXCEPT ![connOf[SendServer]] =
                 [@ EXCEPT !.isConnected = FALSE, !.tools = <<>>,
                           !.transport = FALSE, !.clientClosed = TRUE]]
  /\ procs' = [procs EXCEPT ![connOf[SendServer]] = "closed"]
  /\ UNCHANGED <<config, connOrder, connOf, atts, nextId, tasks, apiVars>>

\* ------------------------------------------------------------------------
\* Specification of the manager
\* ------------------------------------------------------------------------
MgrInit ==
  /\ config = [n \in Names |-> "absent"]
  /\ connOrder = <<>>
  /\ connOf = [n \in Names |-> 0]
  /\ conns = [i \in Ids |-> NoConnection]
  /\ atts = [i \in Ids |-> NoAttempt]
  /\ procs = [i \in Ids |-> "none"]
  /\ nextId = 1
  /\ tasks = [t \in Tasks |-> IdleTask]

\* the constructor has run initAnthropicClient. The environment file, when
\* there is one, sets the key and the model name and no base URL
ApiInit ==
  /\ envApiKey \in BOOLEAN
  /\ anthropic = envApiKey
  /\ isInitialized = envApiKey
  /\ messages = <<>>
  /\ sm = IdleFrame
  /\ envBaseUrl = ""
  /\ envModelName = IF envApiKey THEN EnvModel ELSE ""
  /\ baseUrl = DefaultBaseUrl
  /\ modelName = OrElse(envModelName, DefaultModel)
  /\ clientBaseURL = IF envApiKey THEN DefaultBaseUrl ELSE NoClient
  /\ chosen = [baseUrl |-> "", model |-> ""]

\* the state after both singletons are constructed
Init ==
  /\ MgrInit
  /\ ApiInit

\* SpecMgr: at most MaxTasks calls, which may overlap; MgrIds bounds the
\* processes they spawn
MgrNext ==
  \/ \E k \in ConfigKinds : SetConfig([n \in Names |-> k])
  \/ \E t \in Tasks, n \in Names, r \in 0..MaxRetry :
        ConnectBegin(t, n, r) /\ nextId' <= MgrIds + 1
  \/ \E t \in Tasks : BackoffDone(t) /\ nextId' <= MgrIds + 1
  \/ \E a \in Ids, tl \in ToolLists : ListToolsOk(a, tl)
  \/ \E a \in Ids, e \in ListErrors : ListToolsFail(a, e)
  \/ \E a \in Ids, ok \in BOOLEAN : CloseAfterListFail(a, ok)
  \/ \E t \in Tasks : TimerFires(t)
  \/ \E t \in Tasks, n \in Names : DisconnectBegin(t, n)
  \/ \E t \in Tasks, ok \in BOOLEAN :
        McpCloseSettles(t, ok) /\ nextId' <= MgrIds + 1
  \/ \E t \in Tasks, ok \in BOOLEAN :
        TransportCloseSettles(t, ok) /\ nextId' <= MgrIds + 1

SpecMgr == Init /\ [][MgrNext]_vars

\* ------------------------------------------------------------------------
\* Specifications of the manager under sequential use: the calls are made
\* one after the other, as many as the caller likes.
\* SpecSolo: connects (with retries and timeouts) and disconnects of one
\* server, while the work that timed-out attempts left behind runs on.
\* SpecSeq: connects (single attempt, no timeout), disconnects and tool
\* calls over all the servers.
\* ------------------------------------------------------------------------
Caller == CHOOSE t \in Tasks : \A u \in Tasks : t <= u
Solo == "A"

SoloNext ==
  \/ SetConfig([n \in Names |-> "ok"])
  \/ \E r \in 0..SeqRetry : ConnectBegin(Caller, Solo, r)
  \/ BackoffDone(Caller)
  \/ \E a \in Ids, tl \in ToolLists : ListToolsOk(a, tl)
  \/ \E a \in Ids, e \in ListErrors : ListToolsFail(a, e)
  \/ \E a \in Ids, ok \in BOOLEAN : CloseAfterListFail(a, ok)
  \/ TimerFires(Caller)
  \/ DisconnectBegin(Caller, Solo)
  \/ \E ok \in BOOLEAN : McpCloseSettles(Caller, ok)
  \/ \E ok \in BOOLEAN : TransportCloseSettles(Caller, ok)
  \/ TaskDone(Caller)

SpecSolo == Init /\ [][SoloNext]_vars

SeqNext ==
  \/ SetConfig([n \in Names |-> "ok"])
  \/ \E n \in Names : ConnectBegin(Caller, n, 0)
  \/ \E a \in Ids, tl \in ToolLists : ListToolsOk(a, tl)
  \/ \E a \in Ids, e \in ListErrors : ListToolsFail(a, e)
  \/ \E a \in Ids, ok \in BOOLEAN : CloseAfterListFail(a, ok)
  \/ \E n \in Names : DisconnectBegin(Caller, n)
  \/ \E ok \in BOOLEAN : McpCloseSettles(Caller, ok)
  \/ \E ok \in BOOLEAN : TransportCloseSettles(Caller, ok)
  \/ \E toolName \in ToolNames : CallToolBegin(Caller, toolName)
  \/ \E outcome \in Results \cup {"ToolExecutionError"} :
        CallToolSettles(Caller, outcome)
  \/ TaskDone(Caller)

SpecSeq == Init /\ [][SeqNext]_vars

\* SpecAll: single-attempt connects that may time out, and disconnectAll,
\* over all the servers, one call after the other
AllNext ==
  \/ SetConfig([n \in Names |-> "ok"])
  \/ \E n \in Names : ConnectBegin(Caller, n, 0)
  \/ \E a \in Ids, tl \in ToolLists : ListToolsOk(a, tl)
  \/ TimerFires(Caller)
  \/ DisconnectAllBegin(Caller)
  \/ \E ok \in BOOLEAN : McpCloseSettles(Caller, ok)
  \/ \E ok \in BOOLEAN : TransportCloseSettles(Caller, ok)
  \/ TaskDone(Caller)

SpecAll == Init /\ [][AllNext]_vars

\* SpecInvoke: tool calls overlapping the connects and disconnects of one
\* server, MaxTasks calls at a time; MgrIds bounds the processes
InvokeNext ==
  \/ SetConfig([n \in Names |-> "ok"])
  \/ ConnectBegin(Caller, Solo, 0) /\ nextId' <= MgrIds + 1
  \/ \E a \in Ids, tl \in ToolLists : ListToolsOk(a, tl)
  \/ \E t \in Tasks : DisconnectBegin(t, Solo)
  \/ \E t \in Tasks, ok \in BOOLEAN :
        McpCloseSettles(t, ok) /\ nextId' <= MgrIds + 1
  \/ \E t \in Tasks, ok \in BOOLEAN :
        TransportCloseSettles(t, ok) /\ nextId' <= MgrIds + 1
  \/ \E t \in Tasks, toolName \in ToolNames : CallToolBegin(t, toolName)
  \/ \E t \in Tasks, outcome \in Results \cup {"ToolExecutionError"} :
        CallToolSettles(t, outcome)
  \/ \E t \in Tasks : TaskDone(t)

SpecInvoke == Init /\ [][InvokeNext]_vars

\* SpecTimer: connects of one server with a retry, made one after the
\* other, every attempt racing its timer; MgrIds bounds the processes
TimerNext ==
  \/ SetConfig([n \in Names |-> "ok"])
  \/ \E r \in 0..MaxRetry : ConnectBegin(Caller, Solo, r) /\ nextId' <= MgrIds + 1
  \/ BackoffDone(Caller) /\ nextId' <= MgrIds + 1
  \/ \E a \in Ids, tl \in ToolLists : ListToolsOk(a, tl)
  \/ \E a \in Ids, e \in ListErrors : ListToolsFail(a, e)
  \/ \E a \in Ids, ok \in BOOLEAN : CloseAfterListFail(a, ok)
  \/ TimerFires(Caller)
  \/ \E a \in Ids : TimerFiresLate(a)
  \/ \E ok \in BOOLEAN : McpCloseSettles(Caller, ok) /\ nextId' <= MgrIds + 1
  \/ \E ok \in BOOLEAN :
        TransportCloseSettles(Caller, ok) /\ nextId' <= MgrIds + 1
  \/ TaskDone(Caller)

SpecTimer == Init /\ [][TimerNext]_vars

\* SpecRace: single-attempt connects and disconnects of one server that may
\* overlap, as many as the callers like, MaxTasks at a time; MgrIds bounds
\* the processes they spawn
RaceNext ==
  \/ SetConfig([n \in Names |-> "ok"])
  \/ \E t \in Tasks : ConnectBegin(t, Solo, 0) /\ nextId' <= MgrIds + 1
  \/ \E a \in Ids, tl \in ToolLists : ListToolsOk(a, tl)
  \/ \E t \in Tasks : DisconnectBegin(t, Solo)
  \/ \E t \in Tasks, ok \in BOOLEAN :
        McpCloseSettles(t, ok) /\ nextId' <= MgrIds + 1
  \/ \E t \in Tasks, ok \in BOOLEAN :
        TransportCloseSettles(t, ok) /\ nextId' <= MgrIds + 1
  \/ \E t \in Tasks : TaskDone(t)

SpecRace == Init /\ [][RaceNext]_vars

\* ------------------------------------------------------------------------
\* Specification of sendMessage: one call at a time runs against the model,
\* while the API key and the connection of the tool server may change
\* ------------------------------------------------------------------------
SendNext ==
  \/ \E msgs \in InputHistories : SendStart(msgs)
  \/ \E resp \in Responses(sm.iterations) : ModelResponds(resp)
  \/ RequestFails
  \/ \E r \in Results : ToolSucceeds(r)
  \/ ToolFails
  \/ \E resp \in FreeResponses(0) : SummaryResponds(resp)
  \/ \E resp \in FreeResponses(0) : FallbackResponds(resp)
  \/ CallOver
  \/ \E k \in BOOLEAN : SetApiKey(k)
  \/ ServerConnected
  \/ ServerDisconnected

SpecSend == Init /\ [][SendNext]_vars

\* every model request and every tool invocation of a call settles at some
\* time: an await resumes once its promise has settled
RequestSettles ==
  \/ \E resp \in Responses(sm.iterations) : ModelResponds(resp)
  \/ RequestFails
  \/ \E resp \in FreeResponses(0) : SummaryResponds(resp)
  \/ \E resp \in FreeResponses(0) : FallbackResponds(resp)

InvocationSettles ==
  \/ \E r \in Results : ToolSucceeds(r)
  \/ ToolFails

\* SpecConf: the settings of the service change between calls made one after
\* the other; the model asks in each round for a tool call it has not asked
\* for before, or stops
ConfNext ==
  \/ \E msgs \in InputHistories : SendStart(msgs)
  \/ \E resp \in Responses(MaxChoiceRounds + sm.iterations) : ModelResponds(resp)
  \/ ToolFails
  \/ \E resp \in FreeResponses(0) : SummaryResponds(resp)
  \/ CallOver
  \/ \E k \in BOOLEAN : sm.pc = "idle" /\ SetApiKey(k)
  \/ \E u \in Urls : sm.pc = "idle" /\ SetBaseUrl(u)
  \/ \E m \in Models : sm.pc = "idle" /\ SetModel(m)

SpecConf == Init /\ [][ConfNext]_vars

\* SpecSendLive: calls made one after the other with the key of the
\* environment, the tool server connecting at some time
LiveNext ==
  \/ \E msgs \in InputHistories : SendStart(msgs)
  \/ RequestSettles
  \/ InvocationSettles
  \/ CallOver
  \/ ServerConnected

SpecSendLive ==
  /\ Init /\ [][LiveNext]_vars
  /\ WF_vars(RequestSettles)
  /\ WF_vars(InvocationSettles)

\* ------------------------------------------------------------------------
\* Claims about the manager
\* ------------------------------------------------------------------------
\* call t ran with no other call overlapping it
RanAlone(t) ==
  /\ tasks[t].alone
  /\ \A u \in Tasks : u > t => tasks[u].pc = "idle"

\* C1: once connect(name) has raised, the registry (entries, connected flags,
\* tool lists, key order) is what it was when the call began, and stays so:
\* nothing the failed call left running adds or changes an entry.
C1_FailedConnectLeavesRegistry ==
  \A t \in Tasks :
    (tasks[t].op = "connect" /\ tasks[t].pc = "raised" /\ RanAlone(t))
      => (RegView = tasks[t].snap /\ connOrder = tasks[t].snapOrder)

\* ------------------------------------------------------------------------
\* Claims about sendMessage
\* ------------------------------------------------------------------------
NoDuplicates(q) == \A i, j \in 1..Len(q) : i # j => q[i] # q[j]

RECURSIVE Flatten(_)
Flatten(qs) == IF qs = <<>> THEN <<>> ELSE Head(qs) \o Flatten(Tail(qs))

\* the (name, args) pairs the model has asked for, in order
Asked(answers) ==
  LET uses == SelectSeq(Flatten(answers), LAMBDA c : c.type = "tool_use")
  IN [i \in 1..Len(uses) |-> <<uses[i].name, uses[i].args>>]

\* the kinds of the requests issued so far
Kinds(requests) == [i \in 1..Len(requests) |-> requests[i].kind]

\* C2: within one sendMessage call no (toolName, serializedArgs) pair is
\* handed to the tool invoker more than once.
C2_NoPairInvokedTwice == NoDuplicates(sm.invoked)

\* the first request of the model that repeats an earlier pair (0: none)
FirstRepeat(asked) ==
  IF NoDuplicates(asked) THEN 0
  ELSE CHOOSE j \in 1..Len(asked) :
         /\ \E i \in 1..(j - 1) : asked[i] = asked[j]
         /\ NoDuplicates(SubSeq(asked, 1, j - 1))

\* C3: a call in which the model asked for a pair it had already asked for
\* returns a message whose last block is the explanatory text block for that
\* tool, wherever the repeated request stood in its response.
C3_RepeatEndsWithExplanation ==
  (sm.pc = "returned" /\ FirstRepeat(Asked(sm.answers)) # 0)
    => LET content == sm.returned[1].content
           name == Asked(sm.answers)[FirstRepeat(Asked(sm.answers))][1]
       IN /\ content # <<>>
          /\ content[Len(content)] = TextBlock(RepeatText(name))

\* every response so far asked for a tool call, and never for a pair that had
\* been asked for before
Greedy(f) ==
  /\ \A k \in 1..Len(f.answers) :
       \E i \in 1..Len(f.answers[k]) : f.answers[k][i].type = "tool_use"
  /\ NoDuplicates(Asked(f.answers))

CapRequests ==
  [i \in 1..(maxIterations + 1) |-> IF i <= maxIterations THEN "loop" ELSE "summary"]

\* C4: with a model that asks in every round for a tool call not asked for
\* before, the call never issues more than maxIterations loop requests, and
\* once the loop is over it has made exactly maxIterations loop requests, each
\* followed by the execution of the tools asked for, then one summary request.
C4_CapAfterMaxIterations ==
  Greedy(sm) =>
    /\ Len(SelectSeq(sm.requests, LAMBDA q : q.kind = "loop")) <= maxIterations
    /\ sm.pc \in {"summary", "fallback", "returned"} =>
         /\ Kinds(sm.requests) = CapRequests
         /\ Len(sm.answers) = maxIterations
         /\ sm.invoked = Asked(sm.answers)
         /\ Len(sm.outcomes) = Len(sm.invoked)

C4_Witness ==
  /\ sm.pc = "returned"
  /\ Greedy(sm)
  /\ Len(sm.answers) = maxIterations
  /\ Kinds(sm.requests) = CapRequests

\* the blocks of the model's responses and of the tool executions, in the
\* order in which they came about
RECURSIVE Chronological(_, _)
Chronological(blocks, outcomes) ==
  IF blocks = <<>> THEN <<>>
  ELSE LET c == Head(blocks)
       IN IF c.type = "text"
            THEN <<TextBlock(c.text)>> \o Chronological(Tail(blocks), outcomes)
            ELSE IF outcomes = <<>>
                   THEN <<ToolUseBlock(c.name, c.args)>>
                   ELSE <<ToolUseBlock(c.name, c.args),
                          ToolResultBlock(c.name, c.args, Head(outcomes))>>
                        \o Chronological(Tail(blocks), Tail(outcomes))

\* C5: the content returned by a call that made loop requests only is the
\* chronological sequence of every text, toolUse and toolResult block of all
\* its rounds, the text of rounds with tool calls included.
C5_OutputIsChronological ==
  (sm.pc = "returned" /\ \A i \in 1..Len(sm.requests) : sm.requests[i].kind = "loop")
    => sm.returned[1].content = Chronological(Flatten(sm.answers), sm.outcomes)

\* the first response is one tool_use block, its invocation succeeded, and
\* the second response is one text block
ToolThenText(f) ==
  /\ Len(f.answers) >= 2
  /\ Len(f.answers[1]) = 1 /\ f.answers[1][1].type = "tool_use"
  /\ Len(f.outcomes) >= 1 /\ f.outcomes[1] \in Results
  /\ Len(f.answers[2]) = 1 /\ f.answers[2][1].type = "text"

\* C6: when the first response is a single tool_use whose invocation succeeds
\* with r and the second response is the text x, the call makes two model
\* requests and one invocation and returns [toolUse, toolResult(r), text(x)].
C6_ToolThenTextScenario ==
  (sm.pc = "returned" /\ ToolThenText(sm))
    => LET u == sm.answers[1][1]
       IN /\ Kinds(sm.requests) = <<"loop", "loop">>
          /\ sm.invoked = <<(<<u.name, u.args>>)>>
          /\ sm.returned[1].content =
               <<ToolUseBlock(u.name, u.args),
                 ToolResultBlock(u.name, u.args, sm.outcomes[1]),
                 TextBlock(sm.answers[2][1].text)>>

C6_Witness ==
  /\ sm.pc = "returned"
  /\ ToolThenText(sm)
  /\ Len(sm.toolsAtStart) = 1
  /\ sm.toolsAtStart[1].name = sm.answers[1][1].name

\* no tool was connected when the call began and the first response is made
\* of one or more text blocks
NoToolsTextOnly(f) ==
  /\ f.toolsAtStart = <<>>
  /\ Len(f.answers) >= 1
  /\ f.answers[1] # <<>>
  /\ \A i \in 1..Len(f.answers[1]) : f.answers[1][i].type = "text"

\* C7: with no tool connected and a response of text blocks only, the call
\* makes exactly one model request, without tool metadata, invokes nothing
\* and returns exactly those text blocks in order.
C7_NoToolsTextOnly ==
  (sm.pc = "returned" /\ NoToolsTextOnly(sm))
    => /\ sm.requests = <<[kind |-> "loop", withTools |-> FALSE]>>
       /\ sm.lastRequest.tools = <<>>
       /\ sm.invoked = <<>>
       /\ sm.returned[1].content = sm.answers[1]

C7_Witness ==
  /\ sm.pc = "returned"
  /\ NoToolsTextOnly(sm)
  /\ Len(sm.answers[1]) = 2
  /\ sm.answers[1][1] # sm.answers[1][2]

\* the next tool_use block of a response after block i (0: none)
NextToolUse(resp, i) ==
  IF \E j \in (i + 1)..Len(resp) : resp[j].type = "tool_use"
    THEN CHOOSE j \in (i + 1)..Len(resp) :
           /\ resp[j].type = "tool_use"
           /\ \A k \in (i + 1)..(j - 1) : resp[k].type # "tool_use"
    ELSE 0

\* the step in which a tool invocation of the running call fails
ToolFailureStep ==
  /\ sm.pc = "executing"
  /\ sm'.outcomes = Append(sm.outcomes, ErrorResult)

C9_FailedSendLeavesHistory ==
  sm.pc = "raised" => (sm.returned = <<>> /\ messages = sm.given)

C9_Witness ==
  /\ sm.pc = "raised"
  /\ sm.error = "ModelCallError"
  /\ Len(sm.invoked) > 0
  /\ Len(messages) > 1

\* C10: a failed model request (loop, summary or fallback) is not retried:
\* the call has raised that failure, and it has issued no model request and
\* no tool invocation since.
C10_ModelFailureNotRetried ==
  sm.modelErrors > 0 =>
    /\ sm.pc = "raised"
    /\ sm.error = "ModelCallError"
    /\ sm.modelErrors = 1
    /\ Len(sm.requests) = sm.atFailure[1]
    /\ Len(sm.invoked) = sm.atFailure[2]

C10_Witness ==
  /\ sm.modelErrors = 1
  /\ sm.pc = "raised"
  /\ sm.requests[Len(sm.requests)].kind = "summary"

\* ------------------------------------------------------------------------
\* Claims about connect's retries and cleanup, and about disconnect
\* ------------------------------------------------------------------------
\* C11: a connect with retryCount r that has raised made exactly r + 1
\* attempts (and no running connect ever made more), and the error it raised
\* is the one its last attempt ended with.
C11_RetriesThenLastError ==
  \A t \in Tasks :
    tasks[t].op = "connect" =>
      /\ Len(tasks[t].log) <= tasks[t].retry + 1
      /\ tasks[t].pc = "raised" =>
           /\ Len(tasks[t].log) = tasks[t].retry + 1
           /\ tasks[t].err = tasks[t].log[Len(tasks[t].log)]
           /\ tasks[t].err \in ListErrors => atts[tasks[t].att].err = tasks[t].err
           /\ tasks[t].err = "Timeout" => atts[tasks[t].att].lost

C11_Witness ==
  \E t \in Tasks :
    /\ tasks[t].op = "connect" /\ tasks[t].pc = "raised"
    /\ tasks[t].retry = 2
    /\ Len(tasks[t].log) = 3
    /\ tasks[t].log[1] # tasks[t].log[3]
    /\ tasks[t].log[2] # tasks[t].log[3]

\* C12: a connect whose first attempt met a configuration error has raised
\* there and then: one attempt, no back-off wait, no retry.
C12_ConfigErrorNotRetried ==
  \A t \in Tasks :
    (tasks[t].op = "connect" /\ tasks[t].log # <<>>
       /\ tasks[t].log[1] = "ConfigError")
      => (tasks[t].pc = "raised" /\ Len(tasks[t].log) = 1)

\* the process of attempt a was released: it is closed, or at least its
\* transport.close() was carried out (a failure of it is only logged)
Released(a) == procs[a] = "closed" \/ atts[a].phase = "rejected"

\* C13: once connect has moved on from a failed attempt (to the back-off of
\* the next attempt or to raising), the process that attempt spawned has been
\* released.
C13_FailedAttemptReleased ==
  \A a \in Ids :
    (procs[a] # "none" /\ Racer(a) = 0
       /\ (atts[a].lost \/ atts[a].phase = "rejected"))
      => Released(a)

\* C14: once the work of an attempt that lost the race against the timer has
\* completed, with or without success, the process it spawned is released.
C14_TimedOutAttemptReleasedLater ==
  \A a \in Ids :
    (atts[a].lost /\ atts[a].phase \in {"resolved", "rejected"})
      => (procs[a] = "closed"
          \/ (atts[a].phase = "rejected" /\ Released(a)))

\* C15: the step that ends a disconnect of a connected entry, whatever its
\* two close steps did, returns (it never raises) and leaves the entry
\* present, not connected, without tools and without transport handle.
C15_DisconnectAlwaysDisconnects ==
  [][\A t \in Tasks :
       (tasks[t].op = "disconnect"
          /\ tasks[t].pc \in {"mcpClose", "transportClose"}
          /\ tasks'[t] # tasks[t])
         => /\ tasks'[t].pc \in {"transportClose", "returned"}
            /\ tasks'[t].pc = "returned" =>
                 /\ connOf'[tasks[t].name] = tasks[t].dconn
                 /\ conns'[tasks[t].dconn] =
                      [isConnected |-> FALSE, tools |-> <<>>,
                       transport |-> FALSE,
                       clientClosed |-> conns[tasks[t].dconn].clientClosed]
    ]_vars

C15_Witness ==
  \E t \in Tasks :
    /\ tasks[t].op = "disconnect" /\ tasks[t].pc = "returned"
    /\ tasks[t].dconn # 0
    /\ procs[tasks[t].dconn] = "running"
    /\ ~conns[tasks[t].dconn].clientClosed

\* the step in which disconnect(n) is called on a name that has no entry or
\* whose entry is not connected
IdleDisconnectStep(t) ==
  /\ tasks[t].pc = "idle"
  /\ tasks'[t].op = "disconnect"
  /\ ~NeedsDisconnect(tasks'[t].name)

\* C16: disconnect of a name without entry, or of an entry that is already
\* disconnected (as a disconnect leaves it), returns at once: no close step,
\* no raise, the registry and the processes are what they were; the entry of
\* a second disconnect in a row is still present, not connected, without
\* tools.
C16_DisconnectIdempotent ==
  [][\A t \in Tasks :
       IdleDisconnectStep(t) =>
         /\ tasks'[t].pc = "returned"
         /\ tasks'[t].dconn = 0
         /\ RegView' = RegView /\ connOrder' = connOrder
         /\ conns' = conns /\ procs' = procs
         /\ tasks[t].last = tasks'[t].name =>
              RegEntry(tasks'[t].name) =
                [present |-> TRUE, connected |-> FALSE, tools |-> <<>>]
    ]_vars

\* a second disconnect in a row has returned
C16_Witness ==
  /\ tasks[Caller].op = "disconnect" /\ tasks[Caller].pc = "returned"
  /\ tasks[Caller].dconn = 0
  /\ tasks[Caller].last = tasks[Caller].name
  /\ RegEntry(tasks[Caller].name) =
       [present |-> TRUE, connected |-> FALSE, tools |-> <<>>]

\* ------------------------------------------------------------------------
\* Claims about the registry
\* ------------------------------------------------------------------------
\* connection a is the one a successful connect(n) returned with
ConnectedBy(a, n) ==
  atts[a].name = n /\ atts[a].phase = "resolved" /\ ~atts[a].lost

\* a connect(n) has returned after an earlier connect(n) had succeeded, the
\* entry being still connected when it began
SecondConnectReturned(t) ==
  /\ tasks[t].op = "connect" /\ tasks[t].pc = "returned"
  /\ tasks[t].snap[tasks[t].name].connected
  /\ \E a \in Ids \ {tasks[t].att} : ConnectedBy(a, tasks[t].name)

\* C17: when a connect(X) has returned after an earlier successful
\* connect(X), the entry of X is connected with the tools the second connect
\* returned, and the connection of every earlier connect(X) has been torn
\* down.
C17_ReconnectReplaces ==
  \A t \in Tasks :
    SecondConnectReturned(t) =>
      /\ RegEntry(tasks[t].name) =
           [present |-> TRUE, connected |-> TRUE, tools |-> tasks[t].result]
      /\ tasks[t].result = TagTools(atts[tasks[t].att].found, tasks[t].name)
      /\ \A a \in Ids \ {tasks[t].att} :
           ConnectedBy(a, tasks[t].name) =>
             (~conns[a].isConnected /\ ~conns[a].transport)

\* the attempts whose discovery for server n succeeded
Discoveries(n) == {a \in Ids : atts[a].name = n /\ atts[a].phase = "resolved"}

\* the most recent of them
LastDiscovery(n) ==
  CHOOSE a \in Discoveries(n) :
    \A b \in Discoveries(n) : atts[b].stamp <= atts[a].stamp

\* C18: an entry that is not connected has no tools; a connected entry has
\* the tools of the most recent successful discovery for its name, in the
\* order discovered, each tagged with that name.
C18_ToolsFollowConnected ==
  \A n \in Names :
    connOf[n] # 0 =>
      LET e == RegEntry(n)
      IN /\ ~e.connected => e.tools = <<>>
         /\ e.connected =>
              /\ Discoveries(n) # {}
              /\ Len(e.tools) = Len(atts[LastDiscovery(n)].found)
              /\ \A i \in 1..Len(e.tools) :
                   /\ e.tools[i].name = atts[LastDiscovery(n)].found[i]
                   /\ e.tools[i].serverName = n

\* the entry shows the discovery of an attempt that had timed out, which came
\* after, and differs from, the one connect returned
C18_Witness ==
  \E n \in Names, a, b \in Ids :
    /\ connOf[n] = a /\ conns[a].isConnected
    /\ atts[a].lost /\ ConnectedBy(b, n)
    /\ atts[b].stamp < atts[a].stamp
    /\ atts[a].found # atts[b].found

\* ------------------------------------------------------------------------
\* Claims about callTool
\* ------------------------------------------------------------------------
\* the connections that are connected and list the tool
Serving(toolName) ==
  {c \in Ids : /\ \E n \in Names : connOf[n] = c
               /\ conns[c].isConnected
               /\ HasTool(c, toolName)}

\* the step in which callTool is called / in which its downstream call settles
CallToolStep(t) == tasks[t].pc = "idle" /\ tasks'[t].op = "callTool"
CallSettledStep(t) ==
  tasks[t].op = "callTool" /\ tasks[t].pc = "calling" /\ tasks'[t] # tasks[t]

\* C19: callTool(t) hands the call, once, to a connection of the registry
\* that is connected and lists t, or raises ToolNotFound without handing it
\* to any connection when there is none; when the downstream call settles it
\* is not handed over again: its result is returned, its failure raised.
C19_CallToolDelegatesOnce ==
  [][\A t \in Tasks :
       /\ CallToolStep(t) =>
            IF Serving(tasks'[t].name) = {}
              THEN /\ tasks'[t].pc = "raised"
                   /\ tasks'[t].err = "ToolNotFound"
                   /\ tasks'[t].calls = <<>>
              ELSE /\ tasks'[t].pc = "calling"
                   /\ Len(tasks'[t].calls) = 1
                   /\ tasks'[t].calls[1] \in Serving(tasks'[t].name)
       /\ CallSettledStep(t) =>
            /\ tasks'[t].calls = tasks[t].calls
            /\ \/ /\ tasks'[t].pc = "returned"
                  /\ \E r \in Results : tasks'[t].result = <<r>>
               \/ /\ tasks'[t].pc = "raised"
                  /\ tasks'[t].err = "ToolExecutionError"
    ]_vars

\* two servers are connected, only the second one lists the tool, and the
\* call was handed to it and returned
C19_Witness ==
  /\ tasks[Caller].op = "callTool" /\ tasks[Caller].pc = "returned"
  /\ Len(connOrder) = 2
  /\ \A i \in 1..2 : conns[connOf[connOrder[i]]].isConnected
  /\ ~HasTool(connOf[connOrder[1]], tasks[Caller].name)
  /\ tasks[Caller].calls = <<connOf[connOrder[2]]>>
  /\ tasks[Caller].result # <<>>

\* C20: when several connected connections list the tool, callTool hands the
\* call to the one that connect registered first among them.
C20_FirstRegisteredWins ==
  [][\A t \in Tasks :
       (CallToolStep(t) /\ Serving(tasks'[t].name) # {}) =>
         /\ Len(tasks'[t].calls) = 1
         /\ \A c \in Serving(tasks'[t].name) :
              atts[tasks'[t].calls[1]].stamp <= atts[c].stamp
    ]_vars

\* ------------------------------------------------------------------------
\* Claims about disconnectAll, error translation, ownership and setConfig
\* ------------------------------------------------------------------------
\* the step in which a disconnectAll call returns
DisconnectAllReturns(t) ==
  /\ tasks'[t].op = "disconnectAll" /\ tasks'[t].pc = "returned"
  /\ tasks[t].pc # "returned"

\* C21: disconnectAll, run while no connect call is running, has tried to
\* tear down every connection that was registered as connected (whatever the
\* close steps of the others did), and when it returns every entry of the
\* registry is not connected and has no tools.
C21_DisconnectAllDisconnectsAll ==
  [][\A t \in Tasks :
       (DisconnectAllReturns(t)
          /\ \A u \in Tasks \ {t} : tasks[u].op # "connect")
         => /\ Len(tasks'[t].calls)
                 >= Cardinality({n \in Names : tasks'[t].snap[n].connected})
            /\ \A n \in Names :
                 connOf'[n] # 0 =>
                   /\ ~conns'[connOf'[n]].isConnected
                   /\ conns'[connOf'[n]].tools = <<>>
    ]_vars

\* C22: a connect that raised after its last attempt failed on a connection
\* closed by the premature exit of the tool process raises the specific
\* premature-exit error.
C22_PrematureExitReported ==
  \A t \in Tasks :
    (tasks[t].op = "connect" /\ tasks[t].pc = "raised"
       /\ tasks[t].att # 0
       /\ atts[tasks[t].att].phase = "rejected"
       /\ ~atts[tasks[t].att].lost
       /\ atts[tasks[t].att].err = "ConnectionClosed"
       /\ tasks[t].log[Len(tasks[t].log)] \notin {"ConfigError", "TransportError"})
      => tasks[t].err = "PrematureExit"

\* ------------------------------------------------------------------------
\* Claims about the returned message and about the registry views
\* ------------------------------------------------------------------------
\* the toolUse / toolResult blocks that the invocations of a call and their
\* outcomes stand for
RECURSIVE ToolBlocks(_, _)
ToolBlocks(invoked, outcomes) ==
  IF invoked = <<>> THEN <<>>
  ELSE <<ToolUseBlock(Head(invoked)[1], Head(invoked)[2]),
         ToolResultBlock(Head(invoked)[1], Head(invoked)[2], Head(outcomes))>>
       \o ToolBlocks(Tail(invoked), Tail(outcomes))

\* C23: in a returned message every toolUse block is directly followed by
\* the toolResult block of the same name and args, no toolResult block
\* stands without its toolUse block, and the tool blocks are exactly those of
\* the invocations made, with the payload or the error object each ended
\* with: nothing but an invocation adds a tool block.
C23_ToolBlocksPaired ==
  sm.pc = "returned" =>
    LET content == sm.returned[1].content
    IN /\ \A i \in 1..Len(content) :
            /\ content[i].type = "tool_use" =>
                 /\ i < Len(content)
                 /\ content[i + 1] =
                      [content[i] EXCEPT !.type = "tool_result",
                                         !.result = content[i + 1].result]
                 /\ content[i + 1].result \in Results \cup {ErrorResult}
            /\ content[i].type = "tool_result" =>
                 (i > 1 /\ content[i - 1].type = "tool_use")
       /\ SelectSeq(content, LAMBDA c : c.type # "text")
            = ToolBlocks(sm.invoked, sm.outcomes)

\* a returned message with a failed and a successful invocation and a text
C23_Witness ==
  /\ sm.pc = "returned"
  /\ Len(sm.invoked) = 2
  /\ sm.outcomes[1] = ErrorResult /\ sm.outcomes[2] \in Results
  /\ Len(sm.returned[1].content) = 5

\* position of a name in the map's key order
KeyIndex(n) == CHOOSE i \in 1..Len(connOrder) : connOrder[i] = n

\* C24: getAllTools holds, for every connected entry and for no other, the
\* tools of that entry in the order of its discovery, the entries following
\* each other in the order of the map; getConnectedServers holds exactly the
\* names of the connected entries, once each, in that order.
C24_RegistryViews ==
  /\ \A n \in Names :
       SelectSeq(getAllTools, LAMBDA x : x.serverName = n)
         = (IF RegEntry(n).connected
              THEN TagTools(atts[connOf[n]].found, n) ELSE <<>>)
  /\ \A i, j \in 1..Len(getAllTools) :
       i < j => KeyIndex(getAllTools[i].serverName)
                  <= KeyIndex(getAllTools[j].serverName)
  /\ \A n \in Names :
       RegEntry(n).connected
         <=> (\E i \in 1..Len(getConnectedServers) : getConnectedServers[i] = n)
  /\ \A i, j \in 1..Len(getConnectedServers) :
       i < j => KeyIndex(getConnectedServers[i]) < KeyIndex(getConnectedServers[j])

\* two connected servers with three tools in all, the second server of the
\* map being on its second connection
C24_Witness ==
  /\ Len(getConnectedServers) = 2
  /\ Len(getAllTools) = 3
  /\ Len(conns[connOf[connOrder[1]]].tools) = 2
  /\ connOf[connOrder[2]] = 3

\* a spawned process that runs behind a connection nobody has closed or
\* tried to close (a close that failed is not counted)
Live(a) == procs[a] = "running" /\ conns[a].isConnected

\* C26: once every connect and disconnect call has completed, whatever their
\* interleaving, the only live tool processes are those of the connections
\* the registry holds under their names.
C26_LiveProcessesOwned ==
  Quiescent => \A a \in Ids : Live(a) => connOf[atts[a].name] = a

\* the step in which an attempt of call t spawns its process
SpawnStep(t) == tasks[t].pc # "racing" /\ tasks'[t].pc = "racing"

\* the step in which an attempt of call t fails on the configuration
ConfigErrorStep(t) ==
  /\ Len(tasks'[t].log) = Len(tasks[t].log) + 1
  /\ tasks'[t].log[Len(tasks'[t].log)] = "ConfigError"

\* C27: setConfig changes the stored configuration and nothing else: the
\* registry entries, their tools, the server each tool is served by, the
\* processes and the running calls stay as they are; an attempt to connect
\* goes by the configuration stored when it starts.
C27_SetConfigOnlyStoresConfig ==
  [][/\ config' # config =>
          /\ RegView' = RegView /\ connOrder' = connOrder
          /\ connOf' = connOf /\ conns' = conns
          /\ getAllTools' = getAllTools
          /\ \A tn \in ToolNames : TargetServer(tn)' = TargetServer(tn)
          /\ procs' = procs /\ atts' = atts /\ tasks' = tasks
     /\ \A t \in Tasks :
          /\ SpawnStep(t) => ConfigValid(tasks'[t].name)
          /\ ConfigErrorStep(t) => ~ConfigValid(tasks'[t].name)
    ]_vars

\* a server connected under a configuration that has been replaced since by
\* one without a valid entry for it is still connected and still has tools
C27_Witness ==
  \E n \in Names :
    /\ ~ConfigValid(n)
    /\ NeedsDisconnect(n)
    /\ conns[connOf[n]].tools # <<>>
    /\ getAllTools # <<>>

\* the step in which the disconnect call d, after its close steps, returns
DisconnectReturns(d) ==
  /\ tasks[d].op = "disconnect"
  /\ tasks[d].pc \in {"mcpClose", "transportClose"}
  /\ tasks'[d].pc = "returned"

\* C28: the connection a connect call has stored and returned the tools of
\* stays the connected entry of its name, with those tools, when a
\* disconnect call that began before it was stored completes: that call
\* neither marks it disconnected nor replaces its entry.
C28_OldDisconnectSparesNewConnection ==
  [][\A d \in Tasks :
       LET n == tasks[d].name IN
       (/\ DisconnectReturns(d)
        /\ connOf[n] # tasks[d].dconn
        /\ conns[connOf[n]].isConnected)
       => /\ connOf'[n] = connOf[n]
          /\ RegView'[n] = RegView[n]
          /\ getAllTools' = getAllTools
    ]_vars

\* ------------------------------------------------------------------------
\* Claims about the requests and the history of sendMessage
\* ------------------------------------------------------------------------
\* the step in which a request of the given kind is issued
RequestStep(kind) ==
  /\ Len(sm'.requests) = Len(sm.requests) + 1
  /\ sm'.requests[Len(sm'.requests)].kind = kind

\* C25: every loop request carries the history accumulated so far and the
\* catalog of the tools connected when it is issued (no tool metadata when
\* there is none), also after the set of connected servers has changed
\* during the call.
C25_RequestCarriesCurrentCatalog ==
  [][RequestStep("loop") =>
       /\ sm'.lastRequest.messages = sm'.conversationHistory
       /\ sm'.lastRequest.tools = ToolCatalog
       /\ sm'.requests[Len(sm'.requests)].withTools = (ToolCatalog # <<>>)
    ]_vars

\* the step in which a tool invocation of the running call succeeds
ToolSuccessStep ==
  /\ sm.pc = "executing"
  /\ Len(sm'.outcomes) = Len(sm.outcomes) + 1
  /\ sm'.outcomes[Len(sm'.outcomes)] \in Results

\* C29: a successful tool invocation appends two entries to the model-facing
\* history: the assistant entry with the round's text so far, or the
\* placeholder naming the tool when there is no text, then the user entry
\* with the tool's result.
C29_TwoEntriesPerSuccess ==
  [][ToolSuccessStep =>
       LET c == sm.response[sm.idx]
           h == sm.conversationHistory
           r == sm'.outcomes[Len(sm'.outcomes)]
           two == <<IF sm.modelTextResponse # ""
                      THEN StringEntry("assistant", sm.modelTextResponse)
                      ELSE NeedToolEntry(c.name),
                    ToolResultEntry(c.name, r)>>
       IN /\ Len(sm'.conversationHistory) >= Len(h) + 2
          /\ SubSeq(sm'.conversationHistory, 1, Len(h) + 2) = h \o two
    ]_vars

\* the requests of the given kind among those issued
OfKind(requests, kind) == SelectSeq(requests, LAMBDA r : r.kind = kind)

\* C30: the fallback request is issued exactly when the loop has ended with
\* no tool invoked and an empty output; it is one request, without tool
\* metadata, carrying the converted history of the caller and nothing the
\* loop appended; the content returned is the text blocks of its response.
C30_FallbackExactlyWhenEmpty ==
  LET fb == OfKind(sm.requests, "fallback") IN
  /\ Len(fb) <= 1
  /\ sm.pc = "fallback" =>
       /\ sm.invoked = <<>> /\ sm.messageContent = <<>>
       /\ sm.requests[Len(sm.requests)] = [kind |-> "fallback", withTools |-> FALSE]
       /\ sm.lastRequest = [messages |-> ConvertMessages(sm.given), tools |-> <<>>]
  /\ sm.pc = "returned" =>
       IF Len(fb) = 1
         THEN /\ Len(sm.fallbackAnswer) = 1
              /\ sm.returned[1].content =
                   SelectSeq(sm.fallbackAnswer[1], LAMBDA c : c.type = "text")
         ELSE sm.invoked # <<>> \/ sm.returned[1].content # <<>>

\* a call has returned the two text blocks of a fallback response, issued
\* after a loop whose only response was empty, for a caller whose history
\* held tool blocks
C30_Witness ==
  /\ sm.pc = "returned"
  /\ Kinds(sm.requests) = <<"loop", "fallback">>
  /\ sm.answers = <<(<<>>)>>
  /\ Len(sm.given) = 3
  /\ Len(sm.returned[1].content) = 2

\* the step in which the loop of the running call is left without an error
LoopEnds ==
  /\ sm.pc \in {"loop", "executing"}
  /\ sm'.pc \in {"summary", "fallback", "returned"}

HasToolUse(resp) == \E i \in 1..Len(resp) : resp[i].type = "tool_use"

C32_CallTerminates ==
  /\ [](Len(sm.requests) <= maxIterations + 1)
  /\ (sm.pc # "idle") ~> (sm.pc \in {"returned", "raised"})

\* a call has returned after maxIterations + 1 model requests
C32_Witness ==
  /\ sm.pc = "returned"
  /\ Len(sm.requests) = maxIterations + 1

\* ------------------------------------------------------------------------
\* Claims about the close sequence and the race of an attempt
\* ------------------------------------------------------------------------
\* C33: a disconnect of a connected entry first requests the close of the
\* client and, once that has settled, well or not, the close of the
\* transport; the connection is marked disconnected only in the step in
\* which the second close has settled.
C33_CloseThenRelease ==
  [][/\ \A t \in Tasks :
          LET c == tasks[t].dconn IN
          /\ (tasks[t].pc = "idle" /\ tasks'[t].op = "disconnect"
               /\ NeedsDisconnect(tasks'[t].name))
              => /\ tasks'[t].pc = "mcpClose"
                 /\ tasks'[t].dconn = connOf[tasks'[t].name]
                 /\ conns' = conns /\ procs' = procs
          /\ (tasks[t].op = "disconnect" /\ tasks[t].pc = "mcpClose"
               /\ tasks'[t] # tasks[t])
              => /\ tasks'[t].pc = "transportClose"
                 /\ conns'[c].isConnected
                 /\ RegView' = RegView
          /\ (tasks[t].op = "disconnect" /\ tasks[t].pc = "transportClose"
               /\ tasks'[t] # tasks[t])
              => /\ tasks'[t].pc = "returned"
                 /\ ~conns'[c].isConnected
     /\ \A a \in Ids :
          (conns[a].isConnected /\ ~conns'[a].isConnected)
            => \E t \in Tasks : tasks[t].pc = "transportClose" /\ tasks[t].dconn = a
    ]_vars

\* a disconnect waits for the close of the transport after the close of the
\* client has failed, the entry still being connected
C33_Witness ==
  \E t \in Tasks :
    /\ tasks[t].op = "disconnect"
    /\ tasks[t].pc = "transportClose"
    /\ ~conns[tasks[t].dconn].clientClosed
    /\ procs[tasks[t].dconn] = "running"
    /\ RegEntry(tasks[t].name).connected

\* the step in which the timer of the attempt call t is racing fires
TimerWins(t) ==
  /\ tasks[t].pc = "racing"
  /\ ~atts[tasks[t].att].lost /\ atts'[tasks[t].att].lost

\* the step in which attempt a settles
Settles(a) ==
  /\ atts[a].phase \in {"listing", "closing"}
  /\ atts'[a].phase \in {"resolved", "rejected"}

\* C34: the first of an attempt and its timer to settle decides the attempt
\* for the connect call. The timer first: the attempt fails with the timeout
\* error and is retried, or raised if it was the last, as any failure is, and
\* what the attempt does later does not reach the call. The attempt first: a
\* completed attempt makes connect return its tools, and the timer firing
\* later changes neither the call nor the registry.
C34_FirstSettlerDecides ==
  [][/\ \A t \in Tasks :
          TimerWins(t) =>
            /\ tasks'[t].err = "Timeout"
            /\ tasks'[t].log = Append(tasks[t].log, "Timeout")
            /\ IF tasks[t].attempt = tasks[t].retry
                 THEN tasks'[t].pc = "raised"
                 ELSE tasks'[t].pc = "backoff"
                      /\ tasks'[t].attempt = tasks[t].attempt + 1
            /\ RegView' = RegView
     /\ \A a \in Ids :
          /\ (Settles(a) /\ atts[a].lost) => tasks' = tasks
          /\ (Settles(a) /\ ~atts[a].lost /\ atts'[a].phase = "resolved") =>
               /\ tasks'[atts[a].task].pc = "returned"
               /\ tasks'[atts[a].task].result = TagTools(atts'[a].found, atts[a].name)
          /\ (~atts[a].late /\ atts'[a].late) =>
               /\ tasks' = tasks
               /\ RegView' = RegView /\ connOrder' = connOrder
               /\ conns' = conns /\ procs' = procs
    ]_vars

\* a connect has returned the tools of its second attempt, the first having
\* timed out, and the timer of the second has fired since
C34_Witness ==
  \E t \in Tasks :
    /\ tasks[t].pc = "returned"
    /\ tasks[t].log = <<"Timeout">>
    /\ tasks[t].result # <<>>
    /\ atts[tasks[t].att].late
    /\ RegEntry(tasks[t].name).tools = tasks[t].result

\* the step in which callTool of call t hands the call to a connection
Delegates(t) == tasks[t].pc = "idle" /\ tasks'[t].pc = "calling"

\* a disconnect call is in its close steps on connection c
TearingDown(c) ==
  \E u \in Tasks :
    /\ tasks[u].op = "disconnect"
    /\ tasks[u].pc \in {"mcpClose", "transportClose"}
    /\ tasks[u].dconn = c

\* C35: a tool call that starts after a disconnect has begun to close a
\* connection is not handed to that connection.
C35_NoInvokeOnClosingConnection ==
  [][\A t \in Tasks : Delegates(t) => ~TearingDown(tasks'[t].dconn)]_vars

\* ------------------------------------------------------------------------
\* Claims about the settings of the service
\* ------------------------------------------------------------------------
\* the step in which a sendMessage call starts
SendStep == sm.pc = "idle" /\ sm'.pc # "idle"

\* C36: a sendMessage call that starts while the client is reset (null and
\* not initialized, as setApiKey with an empty key leaves it) fails with the
\* error of the missing key and issues no model request and no invocation.
C36_ResetClientRejectsSend ==
  [][(SendStep /\ ~anthropic /\ ~isInitialized) =>
        /\ sm'.pc = "raised" /\ sm'.error = "ApiKeyNotSet"
        /\ sm'.requests = <<>> /\ sm'.invoked = <<>>
    ]_vars

\* the step in which a model request is issued
AnyRequestStep == Len(sm'.requests) = Len(sm.requests) + 1

\* C37: once setBaseUrl has been given an endpoint, every model request of
\* the calls made afterwards goes to the endpoint given last, whether the
\* client existed before or not; once setModel has been given a model, every
\* such request names the model given last.
C37_RequestsUseChosenSettings ==
  [][AnyRequestStep =>
       LET q == sm'.sentTo[Len(sm'.sentTo)] IN
       /\ chosen.baseUrl # "" => q.url = chosen.baseUrl
       /\ chosen.model # "" => q.model = chosen.model
    ]_vars

====
